---- MODULE Spec2Model ----
(***************************************************************************)
(* Provider registry of app/src/providers/__init__.py: built-in loading,   *)
(* discovery of custom plugin modules, the query operations and the lazy   *)
(* process-wide singleton get_provider_registry().                         *)
(*                                                                         *)
(* A Python str is a sequence of code points, a dict is the sequence of    *)
(* its <<key, value>> items in insertion order, a class object is the      *)
(* string of its class name, and None is the string "None".                *)
(***************************************************************************)
EXTENDS Integers, Sequences, FiniteSets, TLC

\* ---------------------------------------------------------------- bounds
\* most plugin modules listed in providers/custom/
MaxModules == 2
\* most symbols exported by all plugin modules of one directory together
MaxSymbols == 3
\* most calls of get_provider_registry() one thread makes
MaxCalls == 2
\* threads of the concurrent specification
ConcThreads == 2
\* most plugin modules and symbols in the concurrent and validation specifications
ConcModules == 1
ConcSymbols == 1
\* most plugin modules and symbols in the query specification
QueryModules == 1
QuerySymbols == 2

None == "None"

\* the value of the global _provider_registry before the first construction;
\* a constructed registry is referred to by its index in the heap
NoRegistry == 0

\* ---------------------------------------------------------------- strings
\* str.lower() on one code point: A-Z map to a-z, every other code point of
\* the alphabet used here (a-z and U+00DF) is unchanged
LowerChar(c) == IF c >= 65 /\ c <= 90 THEN c + 32 ELSE c

\* str.upper() on one code point: a-z map to A-Z, U+00DF maps to "SS"
UpperChar(c) ==
    IF c >= 97 /\ c <= 122 THEN <<c - 32>>
    ELSE IF c = 223 THEN <<83, 83>>
    ELSE <<c>>

lower(s) == [i \in 1..Len(s) |-> LowerChar(s[i])]

RECURSIVE upper(_)
upper(s) == IF s = <<>> THEN <<>> ELSE UpperChar(Head(s)) \o upper(Tail(s))

\* s < t for Python str: code point by code point, a proper prefix is smaller
StrLess(s, t) ==
    \/ \E i \in 1..Len(s) :
          /\ i <= Len(t)
          /\ s[i] < t[i]
          /\ \A j \in 1..(i - 1) : s[j] = t[j]
    \/ /\ Len(s) < Len(t)
       /\ \A j \in 1..Len(s) : s[j] = t[j]

RECURSIVE InsertSorted(_, _)
InsertSorted(x, q) ==
    IF q = <<>> THEN <<x>>
    ELSE IF StrLess(Head(q), x) THEN <<Head(q)>> \o InsertSorted(x, Tail(q))
    ELSE <<x>> \o q

\* sorted(iterable of str)
RECURSIVE sorted(_)
sorted(q) == IF q = <<>> THEN <<>> ELSE InsertSorted(Head(q), sorted(Tail(q)))

\* ---------------------------------------------------------------- dict
DictKeys(d) == [i \in 1..Len(d) |-> d[i][1]]

KeySet(d) == {d[i][1] : i \in 1..Len(d)}

HasKey(d, k) == \E i \in 1..Len(d) : d[i][1] = k

\* d.get(k)
DictGet(d, k) ==
    IF HasKey(d, k) THEN d[CHOOSE i \in 1..Len(d) : d[i][1] = k][2] ELSE None

\* d[k] = v: an existing key keeps its position, a new key goes last
DictSet(d, k, v) ==
    IF HasKey(d, k)
    THEN [i \in 1..Len(d) |-> IF d[i][1] = k THEN <<k, v>> ELSE d[i]]
    ELSE Append(d, <<k, v>>)

\* ---------------------------------------------------------------- provider classes
anthropic == <<97, 110, 116, 104, 114, 111, 112, 105, 99>>
cerebras == <<99, 101, 114, 101, 98, 114, 97, 115>>
google == <<103, 111, 111, 103, 108, 101>>
ollama == <<111, 108, 108, 97, 109, 97>>
openai == <<111, 112, 101, 110, 97, 105>>
minimax == <<109, 105, 110, 105, 109, 97, 120>>
\* "OpenAI"
OpenAI_mixed == <<79, 112, 101, 110, 65, 73>>
\* "ma" followed by U+00DF
mass_sharp == <<109, 97, 223>>
\* a string no provider reports
nonexistent == <<110, 111>>

\* builtin_providers, in the order of the list in _load_builtin_providers
builtin_providers ==
    <<"OllamaProvider", "OpenAIProvider", "AnthropicProvider",
      "GoogleProvider", "CerebrasProvider">>

BuiltinClasses == {builtin_providers[i] : i \in 1..Len(builtin_providers)}

\* classes a plugin module can export: the shipped MinimaxProvider, a second
\* plugin class reporting the same name, one reporting a built-in's name, one
\* reporting a mixed-case name, one reporting a non-ASCII name, and a
\* BaseProvider subclass that cannot be instantiated
PluginClasses ==
    {"MinimaxProvider", "MinimaxV2Provider", "MyOpenAI", "UpperOpenAI",
     "MassProvider", "AbstractProvider"}

\* the name property of an instance of cls
ProviderName(cls) ==
    CASE cls = "OllamaProvider" -> ollama
      [] cls = "OpenAIProvider" -> openai
      [] cls = "AnthropicProvider" -> anthropic
      [] cls = "GoogleProvider" -> google
      [] cls = "CerebrasProvider" -> cerebras
      [] cls = "MinimaxProvider" -> minimax
      [] cls = "MinimaxV2Provider" -> minimax
      [] cls = "MyOpenAI" -> openai
      [] cls = "UpperOpenAI" -> OpenAI_mixed
      [] cls = "MassProvider" -> mass_sharp
      [] OTHER -> <<>>

\* cls() raises: a subclass that leaves an abstract method unimplemented
CtorRaises(cls) == cls = "AbstractProvider"

\* values a symbol of a plugin module can have: a provider class defined or
\* imported there, BaseProvider itself, or something that is not a class.
\* The symbol values of the directories whose discovery is explored in full:
DiscoveryValues ==
    {"os", "BaseProvider", "MinimaxProvider", "MinimaxV2Provider", "MyOpenAI",
     "OpenAIProvider", "AbstractProvider"}

\* the symbol values of the directories of the query specification: classes
\* whose names differ in case and in alphabet, and the two kinds of symbol
\* that register nothing
QueryValues ==
    {"BaseProvider", "MinimaxProvider", "MyOpenAI", "UpperOpenAI", "MassProvider",
     "AbstractProvider"}

\* the symbol values of the directories of the concurrent specification
ConcValues == {"BaseProvider", "MinimaxProvider", "MyOpenAI", "AbstractProvider"}

IsType(attr) == attr # "os"

IsSubclassOfBase(attr) == attr \in PluginClasses \cup BuiltinClasses \cup {"BaseProvider"}

\* ---------------------------------------------------------------- the plugin directory
\* A module of providers/custom/: whether importing it raises, and the values
\* of its symbols in dir() order (sorted by symbol name).
FailingModule == [fails |-> TRUE, syms |-> <<>>]

\* the sum of the first i entries of a sequence of numbers
RECURSIVE SumTo(_, _)
SumTo(lens, i) == IF i = 0 THEN 0 ELSE lens[i] + SumTo(lens, i - 1)

\* the listing whose module i raises on import when fails[i], and otherwise
\* exports the next lens[i] values of flat
ListingOf(fails, lens, flat) ==
    [i \in 1..Len(lens) |->
        [fails |-> fails[i],
         syms |-> SubSeq(flat, SumTo(lens, i - 1) + 1, SumTo(lens, i))]]

\* custom_dir is providers/custom/ in one of the states it can be in: absent,
\* or a listing of at most n modules that export at most k symbols together,
\* each symbol's value in values
IsDirectory(dir, n, k, values) ==
    \/ dir = [exists |-> FALSE, modules |-> <<>>]
    \/ \E c \in 0..n : \E lens \in [1..c -> 0..k] : \E fails \in [1..c -> BOOLEAN] :
          /\ SumTo(lens, c) <= k
          /\ \A i \in 1..c : fails[i] => lens[i] = 0
          /\ \E flat \in [1..SumTo(lens, c) -> values] :
                dir = [exists |-> TRUE, modules |-> ListingOf(fails, lens, flat)]

\* ---------------------------------------------------------------- registry construction
\* A registry object: its _providers dict, and what its construction printed,
\* instantiated and registered (module 0 stands for the built-in list).
NewRegistry == [providers |-> <<>>, warnings |-> <<>>, instances |-> <<>>, registered |-> <<>>]

RegisterBuiltin(reg, i) ==
    LET provider_class == builtin_providers[i]
        name == ProviderName(provider_class)
    IN [reg EXCEPT
          !.providers = DictSet(@, name, provider_class),
          !.instances = Append(@, [module |-> 0, sym |-> i, cls |-> provider_class]),
          !.registered = Append(@, [module |-> 0, sym |-> i, cls |-> provider_class, name |-> name])]

RECURSIVE LoadBuiltinsFrom(_, _)
LoadBuiltinsFrom(reg, i) ==
    IF i > Len(builtin_providers) THEN reg
    ELSE LoadBuiltinsFrom(RegisterBuiltin(reg, i), i + 1)

\* load_builtin_providers with the loop starting one entry late
load_builtin_providers_skips_first(reg) == LoadBuiltinsFrom(reg, 2)

load_builtin_providers(reg) == LoadBuiltinsFrom(reg, 1)

\* the filter of the symbol loop
Qualifies(attr) == IsType(attr) /\ IsSubclassOfBase(attr) /\ attr # "BaseProvider"

\* the _providers dict rebuilt from the first i registrations, those of
\* module mi left out
RECURSIVE ReplayWithout(_, _, _)
ReplayWithout(registered, mi, i) ==
    IF i = 0 THEN <<>>
    ELSE LET before == ReplayWithout(registered, mi, i - 1)
             e == registered[i]
         IN IF e.module = mi THEN before ELSE DictSet(before, e.name, e.cls)

\* an except clause that also undoes the registrations of the module
HandleModuleError_rollback(reg, mi) ==
    [reg |-> [reg EXCEPT !.providers = ReplayWithout(reg.registered, mi, Len(reg.registered)),
                         !.warnings = Append(@, [kind |-> "failed", module |-> mi, name |-> <<>>])],
     mi |-> mi + 1, si |-> 0, raised |-> FALSE]

\* the except clause of the module loop: an exception of the import or of the
\* symbol loop is printed with the module's name and the loop goes on to the
\* next module; nothing reaches the caller
HandleModuleError(reg, mi) ==
    [reg |-> [reg EXCEPT !.warnings =
                 Append(@, [kind |-> "failed", module |-> mi, name |-> <<>>])],
     mi |-> mi + 1, si |-> 0, raised |-> FALSE]

\* the override check of the symbol loop
AlreadyRegistered(providers, provider_name) == HasKey(providers, provider_name)

\* attr() has returned: read the name, warn on a collision, store the class
RegisterCustom(reg, mi, si, attr) ==
    LET provider_name == ProviderName(attr)
    IN [providers |-> DictSet(reg.providers, provider_name, attr),
        warnings |->
            IF AlreadyRegistered(reg.providers, provider_name)
            THEN Append(reg.warnings, [kind |-> "override", module |-> mi, name |-> provider_name])
            ELSE reg.warnings,
        instances |-> Append(reg.instances, [module |-> mi, sym |-> si, cls |-> attr]),
        registered |->
            Append(reg.registered, [module |-> mi, sym |-> si, cls |-> attr, name |-> provider_name])]

\* the position after symbol si of module mi: the next symbol, else the next module
AfterSymbol(modules, mi, si) ==
    IF si < Len(modules[mi].syms) THEN [mi |-> mi, si |-> si + 1] ELSE [mi |-> mi + 1, si |-> 0]

\* the loop goes on at position p with the registry as reg
GoOn(reg, p) == [reg |-> reg, mi |-> p.mi, si |-> p.si, raised |-> FALSE]

\* One step of the module loop at module mi: the import (si = 0) or symbol si.
DiscoverStep(reg, modules, mi, si) ==
    LET m == modules[mi]
        next == AfterSymbol(modules, mi, si)
    IN IF si = 0
       THEN IF m.fails THEN HandleModuleError(reg, mi) ELSE GoOn(reg, next)
       ELSE LET attr == m.syms[si]
            IN IF ~Qualifies(attr) THEN GoOn(reg, next)
               ELSE IF CtorRaises(attr)
               THEN HandleModuleError(
                        [reg EXCEPT !.instances =
                            Append(@, [module |-> mi, sym |-> si, cls |-> attr])], mi)
               ELSE GoOn(RegisterCustom(reg, mi, si, attr), next)

RECURSIVE DiscoverFrom(_, _, _, _)
DiscoverFrom(reg, modules, mi, si) ==
    IF mi > Len(modules) THEN reg
    ELSE LET r == DiscoverStep(reg, modules, mi, si)
         IN IF r.raised THEN r.reg ELSE DiscoverFrom(r.reg, modules, r.mi, r.si)

discover_custom_providers(reg, dir) ==
    IF ~dir.exists THEN reg ELSE DiscoverFrom(reg, dir.modules, 1, 0)

\* ProviderRegistry(): the registry a whole construction yields
ProviderRegistry(dir) == discover_custom_providers(load_builtin_providers(NewRegistry), dir)

\* ---------------------------------------------------------------- queries
\* get_provider without the lower() of its argument
get_provider_exact(providers, provider_name) == DictGet(providers, provider_name)

get_provider(providers, provider_name) == DictGet(providers, lower(provider_name))

\* list_providers without the sort
list_providers_unsorted(providers) == DictKeys(providers)

list_providers(providers) == sorted(DictKeys(providers))

is_provider_available(providers, provider_name) == HasKey(providers, lower(provider_name))

\* get_provider_info without the early return: a missing class is called
get_provider_info_unchecked(providers, provider_name) ==
    LET provider_class == DictGet(providers, lower(provider_name))
    IN [none |-> FALSE, instantiated |-> provider_class,
        name |-> ProviderName(provider_class), raised |-> provider_class = None]

\* get_provider_info: whether it returns None, the class it instantiates (None
\* when it returns early), the name entry of the dict it returns, whether it raises
get_provider_info(providers, provider_name) ==
    LET provider_class == get_provider(providers, provider_name)
    IN IF provider_class = None
       THEN [none |-> TRUE, instantiated |-> None, name |-> <<>>, raised |-> FALSE]
       ELSE [none |-> FALSE, instantiated |-> provider_class,
             name |-> ProviderName(provider_class), raised |-> FALSE]

\* ---------------------------------------------------------------- validate_config
\* A config dict is the record of what it holds for the keys model_name and
\* api_key: no entry, None, the empty string, or a non-empty string.
ConfigValues == {"absent", "None", "empty", "text"}

Configs == [model_name : ConfigValues, api_key : ConfigValues]

EmptyConfig == [model_name |-> "absent", api_key |-> "absent"]

\* config.get(key)
ConfigGet(config, key) ==
    LET v == IF key = "model_name" THEN config.model_name ELSE config.api_key
    IN IF v = "absent" THEN "None" ELSE v

\* bool(v) for None and str
Truthy(v) == v \notin {"None", "empty"}

\* the provider's label in its model_name message
MessageLabel(cls) ==
    CASE cls = "OllamaProvider" -> "Ollama"
      [] cls = "OpenAIProvider" -> "OpenAI"
      [] cls = "AnthropicProvider" -> "Anthropic"
      [] cls = "GoogleProvider" -> "Google"
      [] cls = "CerebrasProvider" -> "Cerebras"

\* the environment variable the provider's api_key message names
ApiKeyVariable(cls) ==
    CASE cls = "OpenAIProvider" -> "OPENAI_API_KEY"
      [] cls = "AnthropicProvider" -> "ANTHROPIC_API_KEY"
      [] cls = "GoogleProvider" -> "GOOGLE_GEN_AI_API_KEY"
      [] cls = "CerebrasProvider" -> "CEREBRAS_API_KEY"

\* OllamaProvider.validate_config has no api_key test
ChecksApiKey(cls) == cls # "OllamaProvider"

\* the messages, word by word
ModelNameMessage(cls) == <<"model_name", "is", "required", "for", MessageLabel(cls), "provider">>

ApiKeyMessage(cls) == <<ApiKeyVariable(cls), "environment", "variable", "must", "be", "set">>

\* validate_config with the api_key test first
validate_config_key_first(cls, config) ==
    IF ChecksApiKey(cls) /\ ~Truthy(ConfigGet(config, "api_key"))
    THEN [valid |-> FALSE, message |-> ApiKeyMessage(cls), raised |-> FALSE]
    ELSE IF ~Truthy(ConfigGet(config, "model_name"))
    THEN [valid |-> FALSE, message |-> ModelNameMessage(cls), raised |-> FALSE]
    ELSE [valid |-> TRUE, message |-> <<>>, raised |-> FALSE]

\* validate_config of a built-in provider: the tuple it returns (the message
\* None is the empty sequence of words) and whether it raises
validate_config(cls, config) ==
    IF ~Truthy(ConfigGet(config, "model_name"))
    THEN [valid |-> FALSE, message |-> ModelNameMessage(cls), raised |-> FALSE]
    ELSE IF ChecksApiKey(cls) /\ ~Truthy(ConfigGet(config, "api_key"))
    THEN [valid |-> FALSE, message |-> ApiKeyMessage(cls), raised |-> FALSE]
    ELSE [valid |-> TRUE, message |-> <<>>, raised |-> FALSE]

\* ---------------------------------------------------------------- state
VARIABLES
    custom_dir,         \* providers/custom/ as the process finds it
    provider_registry,  \* the global _provider_registry: NoRegistry or an index of heap
    heap,               \* the ProviderRegistry objects constructed so far
    pc,                 \* where each thread is in get_provider_registry()
    self,               \* the registry each thread is constructing
    pos,                \* each thread's place in the module and symbol loops
    calls,              \* how many calls of get_provider_registry() each thread began
    returned,           \* what each thread's calls returned, in order
    last                \* the last query a thread made and its outcome

vars == <<custom_dir, provider_registry, heap, pc, self, pos, calls, returned, last>>

Threads == DOMAIN pc

NoQuery == [op |-> "none"]

\* strings the queries are made with
QueryStrings ==
    {openai, upper(openai), OpenAI_mixed, minimax, mass_sharp, upper(mass_sharp), nonexistent}

InitWith(threads, n, k, values) ==
    /\ IsDirectory(custom_dir, n, k, values)
    /\ provider_registry = NoRegistry
    /\ heap = <<>>
    /\ pc = [t \in 1..threads |-> "idle"]
    /\ self = [t \in 1..threads |-> 0]
    /\ pos = [t \in 1..threads |-> [mi |-> 0, si |-> 0]]
    /\ calls = [t \in 1..threads |-> 0]
    /\ returned = [t \in 1..threads |-> <<>>]
    /\ last = NoQuery

\* the test of get_provider_registry always taken
MustConstruct_always(global) == TRUE

\* the test of get_provider_registry
MustConstruct(global) == global = NoRegistry

\* get_provider_registry() is entered and tests the global
Call(t) ==
    /\ pc[t] = "idle"
    /\ calls[t] < MaxCalls
    /\ calls' = [calls EXCEPT ![t] = @ + 1]
    /\ pc' = [pc EXCEPT ![t] = IF MustConstruct(provider_registry) THEN "new" ELSE "return"]
    /\ last' = NoQuery
    /\ UNCHANGED <<custom_dir, provider_registry, heap, self, pos, returned>>

\* the state of the discovery loops at position p: finished, or at p
AfterStep(t, p) ==
    /\ pos' = [pos EXCEPT ![t] = p]
    /\ pc' = [pc EXCEPT ![t] = IF p.mi > Len(custom_dir.modules) THEN "assign" ELSE "discover"]

\* ProviderRegistry.__init__ up to the module loop: the empty dict, the
\* built-ins, and the test for the plugin directory
Construct(t) ==
    /\ pc[t] = "new"
    /\ heap' = Append(heap, load_builtin_providers(NewRegistry))
    /\ self' = [self EXCEPT ![t] = Len(heap) + 1]
    /\ IF custom_dir.exists
       THEN AfterStep(t, [mi |-> 1, si |-> 0])
       ELSE /\ pc' = [pc EXCEPT ![t] = "assign"]
            /\ pos' = pos
    /\ UNCHANGED <<custom_dir, provider_registry, calls, returned, last>>

\* one import, or one symbol of the module being scanned
Discover(t) ==
    /\ pc[t] = "discover"
    /\ LET r == DiscoverStep(heap[self[t]], custom_dir.modules, pos[t].mi, pos[t].si)
       IN /\ heap' = [heap EXCEPT ![self[t]] = r.reg]
          /\ IF r.raised
             THEN /\ pc' = [pc EXCEPT ![t] = "raised"]
                  /\ pos' = pos
             ELSE AfterStep(t, [mi |-> r.mi, si |-> r.si])
    /\ UNCHANGED <<custom_dir, provider_registry, self, calls, returned, last>>

\* _provider_registry = ProviderRegistry()
Assign(t) ==
    /\ pc[t] = "assign"
    /\ provider_registry' = self[t]
    /\ pc' = [pc EXCEPT ![t] = "return"]
    /\ UNCHANGED <<custom_dir, heap, self, pos, calls, returned, last>>

\* return _provider_registry
Return(t) ==
    /\ pc[t] = "return"
    /\ returned' = [returned EXCEPT ![t] = Append(@, provider_registry)]
    /\ pc' = [pc EXCEPT ![t] = "idle"]
    /\ UNCHANGED <<custom_dir, provider_registry, heap, self, pos, calls, last>>

\* a query on the registry the thread's last call returned
Query(t) ==
    /\ pc[t] = "idle"
    /\ returned[t] # <<>>
    /\ LET r == returned[t][Len(returned[t])]
           providers == heap[r].providers
       IN \/ \E s \in QueryStrings :
                last' = [op |-> "get_provider", reg |-> r, arg |-> s,
                         result |-> get_provider(providers, s)]
          \/ \E s \in QueryStrings :
                last' = [op |-> "is_provider_available", reg |-> r, arg |-> s,
                         result |-> is_provider_available(providers, s)]
          \/ \E s \in QueryStrings :
                last' = [op |-> "get_provider_info", reg |-> r, arg |-> s,
                         result |-> get_provider_info(providers, s)]
          \/ last' = [op |-> "list_providers", reg |-> r, arg |-> <<>>,
                      result |-> list_providers(providers)]
    /\ UNCHANGED <<custom_dir, provider_registry, heap, pc, self, pos, calls, returned>>

\* a thread validates a config with an instance of a built-in provider
Validate(t) ==
    /\ pc[t] = "idle"
    /\ \E cls \in BuiltinClasses : \E config \in Configs :
          last' = [op |-> "validate_config", cls |-> cls, config |-> config,
                   result |-> validate_config(cls, config)]
    /\ UNCHANGED <<custom_dir, provider_registry, heap, pc, self, pos, calls, returned>>

\* single-threaded startup: one thread constructs the registry
Init == InitWith(1, MaxModules, MaxSymbols, DiscoveryValues)

Next ==
    \/ \E t \in Threads : Call(t)
    \/ \E t \in Threads : Construct(t)
    \/ \E t \in Threads : Discover(t)
    \/ \E t \in Threads : Assign(t)
    \/ \E t \in Threads : Return(t)

Spec == Init /\ [][Next]_vars

\* several threads race through the first access
InitConc == InitWith(ConcThreads, ConcModules, ConcSymbols, ConcValues)

SpecConc == InitConc /\ [][Next]_vars

\* one thread obtains the registry and queries it
InitQuery == InitWith(1, QueryModules, QuerySymbols, QueryValues)

NextQuery ==
    \/ Next
    \/ \E t \in Threads : Query(t)

SpecQuery == InitQuery /\ [][NextQuery]_vars

\* one thread obtains the registry and validates configs with the built-ins
InitValidate == InitWith(1, ConcModules, ConcSymbols, ConcValues)

NextValidate ==
    \/ Next
    \/ \E t \in Threads : Validate(t)

SpecValidate == InitValidate /\ [][NextValidate]_vars

\* ---------------------------------------------------------------- properties
\* thread t holds a registry whose construction has ended
Finished(t) == self[t] # 0 /\ pc[t] \in {"assign", "return", "idle"}

\* importing module m, or instantiating one of its provider classes, raises
ModuleRaises(m) ==
    m.fails \/ \E i \in 1..Len(m.syms) : Qualifies(m.syms[i]) /\ CtorRaises(m.syms[i])

\* the listing without its module j
Without(modules, j) == SubSeq(modules, 1, j - 1) \o SubSeq(modules, j + 1, Len(modules))

\* the provider classes module m exports that report name n
ClassesNamed(m, n) ==
    {m.syms[i] : i \in {k \in 1..Len(m.syms) :
                          Qualifies(m.syms[k]) /\ ProviderName(m.syms[k]) = n}}

\* the override warnings of reg's construction that name module j and name n
OverrideWarnings(reg, j, n) ==
    {i \in 1..Len(reg.warnings) :
        /\ reg.warnings[i].kind = "override"
        /\ reg.warnings[i].module = j
        /\ reg.warnings[i].name = n}

BuiltinNames == {ProviderName(c) : c \in BuiltinClasses}

PluginNames == {ProviderName(c) : c \in {d \in PluginClasses : ~CtorRaises(d)}}

\* C1: when threads call get_provider_registry() concurrently before the
\* registry exists, ProviderRegistry is constructed at most once and every
\* caller receives the same instance.
C1_ConstructedOnce ==
    /\ Len(heap) <= 1
    /\ \A t \in Threads : \A u \in Threads :
          \A i \in 1..Len(returned[t]) : \A j \in 1..Len(returned[u]) :
              returned[t][i] = returned[u][j]

\* C2: a module that raises on import or on instantiation gets a warning that
\* names it, the construction does not raise, and every provider of every
\* other module is registered as it would be with the failing module absent.
C2_FailingModuleIsolated ==
    \A t \in Threads :
        /\ pc[t] # "raised"
        /\ Finished(t) =>
              LET reg == heap[self[t]]
                  ms == custom_dir.modules
              IN \A j \in 1..Len(ms) :
                    ModuleRaises(ms[j]) =>
                       /\ \E i \in 1..Len(reg.warnings) :
                             /\ reg.warnings[i].kind = "failed"
                             /\ reg.warnings[i].module = j
                       /\ LET absent == ProviderRegistry(
                                  [exists |-> TRUE, modules |-> Without(ms, j)])
                          IN \A e \in 1..Len(absent.registered) :
                                absent.registered[e].module # 0 =>
                                   DictGet(reg.providers, absent.registered[e].name)
                                     = DictGet(absent.providers, absent.registered[e].name)

\* C3: when a plugin module (the only one to do so) provides one provider
\* class that reports a built-in's name, get_provider(name) returns that class
\* after construction and exactly one override warning is printed for the
\* name, naming that module.
C3_CustomOverridesBuiltin ==
    \A t \in Threads :
        Finished(t) =>
           LET reg == heap[self[t]]
               ms == custom_dir.modules
           IN \A j \in 1..Len(ms) : \A n \in BuiltinNames : \A c \in PluginClasses :
                 ( /\ ~ModuleRaises(ms[j])
                   /\ ClassesNamed(ms[j], n) = {c}
                   /\ \A k \in 1..Len(ms) : k # j => ClassesNamed(ms[k], n) = {} )
                 => /\ get_provider(reg.providers, n) = c
                    /\ Cardinality(OverrideWarnings(reg, j, n)) = 1

\* C4: when modules A and B, discovered in that order, each define one
\* provider class reporting the same name, not a built-in's and reported by no
\* other module, the name ends up mapped to B's class, no override warning
\* names A, and exactly one override warning names B.
C4_LaterModuleWins ==
    \A t \in Threads :
        Finished(t) =>
           LET reg == heap[self[t]]
               ms == custom_dir.modules
           IN \A a \in 1..Len(ms) : \A b \in 1..Len(ms) :
              \A n \in PluginNames \ BuiltinNames :
              \A ca \in PluginClasses : \A cb \in PluginClasses :
                 ( /\ a < b
                   /\ ca # cb
                   /\ ~ModuleRaises(ms[a])
                   /\ ~ModuleRaises(ms[b])
                   /\ ClassesNamed(ms[a], n) = {ca}
                   /\ ClassesNamed(ms[b], n) = {cb}
                   /\ \A k \in 1..Len(ms) : k \notin {a, b} => ClassesNamed(ms[k], n) = {} )
                 => /\ DictGet(reg.providers, n) = cb
                    /\ OverrideWarnings(reg, a, n) = {}
                    /\ Cardinality(OverrideWarnings(reg, b, n)) = 1

\* C5: in every state of every registry, after built-in loading and after
\* each custom registration, no two distinct keys of the provider mapping are
\* equal when compared case-insensitively.
C5_KeysCaseInsensitivelyUnique ==
    \A r \in 1..Len(heap) :
        \A k1 \in KeySet(heap[r].providers) : \A k2 \in KeySet(heap[r].providers) :
            lower(k1) = lower(k2) => k1 = k2

\* every code point of s is an ASCII one
IsAscii(s) == \A i \in 1..Len(s) : s[i] < 128

\* str.capitalize() of a string that begins with an ASCII letter
Capitalize(s) == IF s = <<>> THEN <<>> ELSE UpperChar(Head(s)) \o lower(Tail(s))

\* one code point with the case of an ASCII letter changed
SwapAsciiCase(c) ==
    IF c >= 65 /\ c <= 90 THEN c + 32
    ELSE IF c >= 97 /\ c <= 122 THEN c - 32
    ELSE c

\* case variants of n that the lookups are compared on: n.upper(), n.lower(),
\* n.capitalize(), and n with the case of one ASCII letter changed
CaseVariants(n) ==
    {upper(n), lower(n), Capitalize(n)} \cup
    {[n EXCEPT ![i] = SwapAsciiCase(n[i])] : i \in 1..Len(n)}

\* the lookups treat n and its case variants alike in registry r
SameForCaseVariants(r, n) ==
    LET providers == heap[r].providers
    IN /\ get_provider(providers, upper(n)) = get_provider(providers, n)
       /\ \A v \in CaseVariants(n) :
             is_provider_available(providers, v) = is_provider_available(providers, n)

\* C6 as claimed: for every registered identifier n, get_provider(n.upper())
\* returns what get_provider(n) returns, and is_provider_available answers
\* alike for n and its case variants.
C6_CaseInsensitiveLookup ==
    \A r \in 1..Len(heap) : \A n \in KeySet(heap[r].providers) : SameForCaseVariants(r, n)

\* C6 as amended: for every registered identifier n made of ASCII characters,
\* get_provider(n.upper()) returns what get_provider(n) returns, and
\* is_provider_available answers alike for n and its ASCII case variants.
C6_AsciiCaseInsensitiveLookup ==
    \A r \in 1..Len(heap) : \A n \in KeySet(heap[r].providers) :
        IsAscii(n) => SameForCaseVariants(r, n)

\* a thread has looked up the upper-case form of a registered ASCII identifier
\* in a registry that also holds a mixed-case key, and got its class
C6_Witness ==
    /\ last.op = "get_provider"
    /\ last.arg = upper(openai)
    /\ last.result = "OpenAIProvider"
    /\ HasKey(heap[last.reg].providers, OpenAI_mixed)

\* C7: list_providers() returns the identifiers in ascending order, none
\* twice, and they are exactly the keys of the provider mapping.
C7_ListSortedExact ==
    last.op = "list_providers" =>
       LET listed == last.result
           providers == heap[last.reg].providers
       IN /\ \A i \in 1..Len(listed) : \A j \in 1..Len(listed) :
                i < j => StrLess(listed[i], listed[j])
          /\ {listed[i] : i \in 1..Len(listed)} = KeySet(providers)
          /\ Len(listed) = Cardinality(KeySet(providers))

\* list_providers() has been called on a registry in which a plugin has
\* overridden a built-in and another has added a name
C7_Witness ==
    /\ last.op = "list_providers"
    /\ Len(last.result) = Len(builtin_providers) + 1
    /\ heap[last.reg].warnings # <<>>

\* no key of registry r equals s when compared case-insensitively
Unregistered(r, s) == \A k \in KeySet(heap[r].providers) : lower(k) # lower(s)

\* C8: for a string that is no registered identifier, get_provider returns
\* None, is_provider_available returns False and get_provider_info returns
\* None; none raises, instantiates a provider or changes the registry.
C8_UnknownNameIsAbsent ==
    [][(last' # last /\ last'.op \in {"get_provider", "is_provider_available", "get_provider_info"}
            /\ Unregistered(last'.reg, last'.arg))
       => /\ heap' = heap
          /\ provider_registry' = provider_registry
          /\ last'.op = "get_provider" => last'.result = None
          /\ last'.op = "is_provider_available" => last'.result = FALSE
          /\ last'.op = "get_provider_info" =>
                /\ last'.result.none
                /\ last'.result.instantiated = None
                /\ ~last'.result.raised]_vars

\* get_provider_info has been called with an unregistered string on a registry
\* holding a plugin's provider
C8_Witness ==
    /\ last.op = "get_provider_info"
    /\ last.arg = nonexistent
    /\ last.result.none
    /\ Len(heap[last.reg].providers) > Len(builtin_providers)

\* C9: when the plugin directory does not exist, construction prints no
\* warning and the registry holds exactly the five built-in identifiers, each
\* mapped to its built-in class.
C9_MissingDirectory ==
    \A t \in Threads :
        (Finished(t) /\ ~custom_dir.exists) =>
           LET reg == heap[self[t]]
           IN /\ reg.warnings = <<>>
              /\ KeySet(reg.providers) = {anthropic, cerebras, google, ollama, openai}
              /\ Len(reg.providers) = Cardinality(KeySet(reg.providers))
              /\ DictGet(reg.providers, anthropic) = "AnthropicProvider"
              /\ DictGet(reg.providers, cerebras) = "CerebrasProvider"
              /\ DictGet(reg.providers, google) = "GoogleProvider"
              /\ DictGet(reg.providers, ollama) = "OllamaProvider"
              /\ DictGet(reg.providers, openai) = "OpenAIProvider"

\* the registry has been constructed and returned without a plugin directory
C9_Witness ==
    /\ ~custom_dir.exists
    /\ \E t \in Threads : Finished(t) /\ returned[t] # <<>>

\* the number of times the built-in list was loaded into registry r
BuiltinLoads(r) ==
    Cardinality({i \in 1..Len(heap[r].instances) :
                    heap[r].instances[i].module = 0 /\ heap[r].instances[i].sym = 1})

\* C10: in a single-threaded process all calls of get_provider_registry()
\* return the same registry object, and built-in loading followed by custom
\* discovery happens once, on the first call.
C10_SingletonReused ==
    Cardinality(Threads) = 1 =>
       \A t \in Threads :
          /\ Len(heap) <= 1
          /\ \A i \in 1..Len(returned[t]) : returned[t][i] = 1
          /\ returned[t] # <<>> =>
                /\ Len(heap) = 1
                /\ BuiltinLoads(1) = 1
                /\ heap[1] = ProviderRegistry(custom_dir)

\* the single thread has called get_provider_registry() twice, with plugins found
C10_Witness ==
    /\ Cardinality(Threads) = 1
    /\ \E t \in Threads : Len(returned[t]) >= 2
    /\ custom_dir.modules # <<>>

\* the message has the word w
Mentions(message, w) == \E i \in 1..Len(message) : message[i] = w

\* C11: for every built-in provider, validate_config of an empty config
\* returns (False, message) without raising, and the message names
\* model_name, the field tested before api_key.
C11_EmptyConfigRejected ==
    (last.op = "validate_config" /\ last.config = EmptyConfig) =>
       /\ ~last.result.raised
       /\ ~last.result.valid
       /\ Mentions(last.result.message, "model_name")
       /\ last.result.message = ModelNameMessage(last.cls)

\* a provider that also tests api_key has validated the empty config
C11_Witness ==
    /\ last.op = "validate_config"
    /\ last.config = EmptyConfig
    /\ ChecksApiKey(last.cls)
    /\ ~last.result.valid

\* the registrations (or instantiations) in log that module j made of class c
EventsOf(log, j, c) == {e \in 1..Len(log) : log[e].module = j /\ log[e].cls = c}

\* the provider classes selected from module m
Selected(m) == {m.syms[i] : i \in {k \in 1..Len(m.syms) : Qualifies(m.syms[k])}}

\* C12: during discovery of one plugin module, each provider type selected
\* from it is instantiated exactly once and registered exactly once, under
\* the name its name property returns, however many symbols export the type
\* and wherever the type was defined.
C12_OncePerType ==
    \A t \in Threads :
        Finished(t) =>
           LET reg == heap[self[t]]
               ms == custom_dir.modules
           IN \A j \in 1..Len(ms) :
                 ~ModuleRaises(ms[j]) =>
                    \A c \in Selected(ms[j]) :
                       /\ Cardinality(EventsOf(reg.instances, j, c)) = 1
                       /\ Cardinality(EventsOf(reg.registered, j, c)) = 1
                       /\ \A e \in EventsOf(reg.registered, j, c) :
                             reg.registered[e].name = ProviderName(c)
                       /\ HasKey(reg.providers, ProviderName(c))

\* instantiating a provider class of m raises, importing m does not
CtorFails(m) ==
    ~m.fails /\ \E i \in 1..Len(m.syms) : Qualifies(m.syms[i]) /\ CtorRaises(m.syms[i])

\* the first symbol of m whose instantiation raises
FirstRaising(m) ==
    CHOOSE f \in 1..Len(m.syms) :
        /\ Qualifies(m.syms[f]) /\ CtorRaises(m.syms[f])
        /\ \A i \in 1..(f - 1) : ~(Qualifies(m.syms[i]) /\ CtorRaises(m.syms[i]))

\* the listing with module j cut off before its symbol f
Truncated(modules, j, f) == [modules EXCEPT ![j].syms = SubSeq(@, 1, f - 1)]

\* the failure warnings of reg's construction that name module j
FailureWarnings(reg, j) ==
    {i \in 1..Len(reg.warnings) :
        reg.warnings[i].kind = "failed" /\ reg.warnings[i].module = j}

\* C13: when instantiating a qualifying symbol of module m raises, the
\* providers m registered from the symbols before it stay registered (the
\* registry is the one m would have produced had it ended before that
\* symbol), no later symbol of m is registered, and exactly one failure
\* warning names m.
C13_NoRollback ==
    \A t \in Threads :
        Finished(t) =>
           LET reg == heap[self[t]]
               ms == custom_dir.modules
           IN \A j \in 1..Len(ms) :
                 CtorFails(ms[j]) =>
                    LET f == FirstRaising(ms[j])
                    IN /\ \A i \in 1..(f - 1) :
                             Qualifies(ms[j].syms[i]) =>
                                \E e \in 1..Len(reg.registered) :
                                    /\ reg.registered[e].module = j
                                    /\ reg.registered[e].sym = i
                                    /\ reg.registered[e].cls = ms[j].syms[i]
                       /\ reg.providers =
                             ProviderRegistry([exists |-> TRUE,
                                               modules |-> Truncated(ms, j, f)]).providers
                       /\ \A e \in 1..Len(reg.registered) :
                             reg.registered[e].module = j => reg.registered[e].sym < f
                       /\ Cardinality(FailureWarnings(reg, j)) = 1

\* a module overwrote a built-in, then raised, with a provider class left
C13_Witness ==
    \E t \in Threads :
        /\ Finished(t)
        /\ Len(custom_dir.modules) = 1
        /\ custom_dir.modules[1].syms = <<"MyOpenAI", "AbstractProvider", "MinimaxProvider">>
        /\ DictGet(heap[self[t]].providers, openai) = "MyOpenAI"
        /\ ~HasKey(heap[self[t]].providers, minimax)

\* C14: every name list_providers() returns can be looked up:
\* is_provider_available is True for it, get_provider returns the class
\* registered under it, and get_provider_info is not None.
C14_ListedNamesResolve ==
    \A t \in Threads :
        Finished(t) =>
           LET providers == heap[self[t]].providers
               listed == list_providers(providers)
           IN \A i \in 1..Len(listed) :
                 /\ is_provider_available(providers, listed[i])
                 /\ get_provider(providers, listed[i]) = DictGet(providers, listed[i])
                 /\ ~get_provider_info(providers, listed[i]).none

====
